---- MODULE Spec2Model ----
(***************************************************************************)
(* A model of src/api/youtube_shorts_api.py: the YouTubeShortsProcessor    *)
(* stages (download_video, convert_to_shorts_format, authenticate_youtube, *)
(* upload_video), the upload_file intake route, and the trigger routes     *)
(* with the threads they start.                                            *)
(*                                                                         *)
(* Conventions.                                                            *)
(*  - A percent is kept in tenths (475 is 47.5), so that the float         *)
(*    30 + progress * 0.7 of upload_video is an integer here.              *)
(*  - A progress event is <<percent in tenths, kind>>, kind "info" or      *)
(*    "error"; both kinds carry a non-empty message in the code.           *)
(*  - A crop coordinate is kept doubled (1313 is 656.5): the code's        *)
(*    x_center - new_width / 2 is a multiple of one half.                  *)
(*  - A path is <<directory, base name>>.                                  *)
(*  - Each job of Jobs is one thread of control running one stage          *)
(*    invocation; pc[j] is its position in the code.                       *)
(***************************************************************************)
EXTENDS Integers, Sequences, FiniteSets, TLC

VARIABLES
    pc,               \* [Jobs -> position of the job in its stage]
    stage,            \* [Jobs -> "none" | "download" | "convert" | "authenticate" | "upload" | "upload_file"]
    cb,               \* [Jobs -> BOOLEAN]: a progress_callback was passed
    events,           \* [Jobs -> sequence of progress events of the invocation]
    ret,              \* [Jobs -> "pending" | "ok" | "None" | "False"]
    retPath,          \* [Jobs -> the path returned, NoPath if none]
    youtube_service,  \* processor.youtube_service: "None" | "service"
    token,            \* token.pickle: "absent" | "valid" | "expired_rt" | "invalid" | "partial"
    temp_cred,        \* temp_client_secret.json exists
    tokenSid,         \* the session token.pickle holds (StoredSid, or the job whose flow made it)
    serviceSid,       \* the session youtube_service was built from, NoSid for None
    auth,             \* [Jobs -> the locals of the job's authenticate_youtube call]
    title,            \* [Jobs -> the title argument of upload_video]
    request,          \* [Jobs -> BOOLEAN]: the insert request was created
    chunks,           \* [Jobs -> number of next_chunk calls made]
    sent,             \* [Jobs -> units the transport has acknowledged, of TotalSize]
    statuses,         \* [Jobs -> the statuses next_chunk returned, NoStatus for None]
    response,         \* [Jobs -> BOOLEAN]: next_chunk returned a terminal response
    clock,            \* int(time.time()): the wall clock in whole seconds
    url,              \* [Jobs -> "youtube" | "generic"]: the kind of the url argument
    target,           \* [Jobs -> the path the job writes, NoPath before it is chosen]
    video_path,       \* [Jobs -> the video_path argument of convert_to_shorts_format]
    source,           \* [Jobs -> [w, h, dur] of the file at video_path]
    clip,             \* [Jobs -> the clip of convert_to_shorts_format]
    filename,         \* [Jobs -> file.filename of an upload_file request, NoFile if none]
    http,             \* [Jobs -> the status of the upload_file response, 0 before it]
    dispatch,         \* [Jobs -> the thread a trigger route started for the job, NoThread if none]
    reply             \* the last response of a trigger route, with the request it answers

varsCommon == <<pc, stage, cb, events, ret, retPath>>
varsAuth   == <<youtube_service, token, temp_cred, tokenSid, serviceSid, auth>>
varsUpload == <<title, request, chunks, sent, statuses, response>>
varsDownload == <<clock, url>>
varsConvert == <<video_path, source, clip>>
varsIntake == <<filename, http>>
varsRoutes == <<dispatch, reply>>
vars       == <<varsCommon, varsAuth, varsUpload, varsDownload, target,
                varsConvert, varsIntake, varsRoutes>>

Jobs == {1, 2}

\* The file size of an upload, in units the transport acknowledges.
TotalSize == 8
\* The longest upload: the number of next_chunk round trips of one invocation.
MaxChunks == 5

NoPath == <<"", "">>
\* next_chunk returned None for the status.
NoStatus == -1
Titles == {"", "clip"}

\* The latest second of the wall clock a run of the model follows.
MaxClock == 2
\* The largest width and height, in pixels, of the small sources.
MaxDim == 20

NoFile == "<none>"
NoClip == [open |-> FALSE, w |-> 0, h |-> 0, dur |-> 0, crop |-> <<>>]
NoSource == [w |-> 0, h |-> 0, dur |-> 0]
\* No thread was started for the job; no trigger route has answered yet.
NoThread == [route |-> "none", arg |-> "", title |-> ""]
NoReply == [route |-> "none", req |-> [body |-> FALSE, arg |-> "", exists |-> FALSE,
                                       title |-> ""],
            status |-> 0, error |-> FALSE]

\* app.config['UPLOAD_FOLDER'], app.config['PROCESSED_FOLDER']
UPLOAD_FOLDER == "uploads"
PROCESSED_FOLDER == "processed"

\* Widths and heights: the small ones and those of the 640x360, 1280x720 and
\* 1920x1080 sources.
Dims == (1..MaxDim) \cup {360, 640, 720, 1280, 1080, 1920}
\* Durations in seconds, on both sides of the 60 second limit.
Durations == {30, 60, 61, 90}
\* Source files: two of one base name in different directories, and a third.
SourcePaths == {<<"uploads", "a.mp4">>, <<"inbox", "a.mp4">>, <<"uploads", "b.mp4">>}
\* The file names a client sends.
Filenames == {"", "a.mp4", "../a.mp4", "b c.mp4", "b_c.mp4"}

----------------------------------------------------------------------------
(* progress_callback *)

\* `if progress_callback: progress_callback(percent, message)`
Cb(seq, c, pct10, kind) == IF c THEN Append(seq, <<pct10, kind>>) ELSE seq

\* What a call leaves when it starts: the per-invocation state of job j.
Fresh(j, st, c) ==
    /\ stage' = [stage EXCEPT ![j] = st]
    /\ cb' = [cb EXCEPT ![j] = c]
    /\ events' = [events EXCEPT ![j] = <<>>]
    /\ ret' = [ret EXCEPT ![j] = "pending"]
    /\ retPath' = [retPath EXCEPT ![j] = NoPath]

\* A job runs one stage invocation: it can be given one until it starts.
Idle(j) == pc[j] = "idle"

----------------------------------------------------------------------------
(* authenticate_youtube *)

\* Sessions: the one token.pickle holds at start, and none. A session the
\* interactive flow of job j creates is numbered j.
StoredSid == 0
NoSid == -1
\* temp_client_secret.json does not exist (else temp_cred is the job whose
\* credentials it holds).
NoJob == 0

\* The locals of a call before it reads anything. creds: "None" | "valid" |
\* "expired_rt" | "invalid"; found, foundSid: what pickle.load returned;
\* built: the session passed to build; did: the effects of the call so far;
\* raised: the step that raised, "" if none.
NoAuth == [creds |-> "None", sid |-> NoSid, found |-> "unread", foundSid |-> NoSid,
           built |-> NoSid, did |-> {}, raised |-> ""]

Unchanged_NotAuth ==
    UNCHANGED <<varsUpload, varsDownload, target, varsConvert, varsIntake, varsRoutes>>

\* The except branch of authenticate_youtube: (False, message).
AuthFails(j, step) ==
    /\ auth' = [auth EXCEPT ![j].raised = step]
    /\ ret' = [ret EXCEPT ![j] = "False"]
    /\ pc' = [pc EXCEPT ![j] = "done"]

\* The login is skipped whatever the stored session is: the flow always runs.
NeedsLogin_Always(c) == TRUE

\* `if not creds or not creds.valid`
NeedsLogin(c) == c # "valid"

\* processor.authenticate_youtube(credentials) is called.
AuthCall(j) ==
    /\ Idle(j)
    /\ Fresh(j, "authenticate", FALSE)
    /\ pc' = [pc EXCEPT ![j] = "a_parse"]
    /\ auth' = [auth EXCEPT ![j] = NoAuth]
    /\ UNCHANGED <<youtube_service, token, temp_cred, tokenSid, serviceSid>>
    /\ Unchanged_NotAuth

\* Lines 175-180: json.loads, then the credentials are written to
\* temp_client_secret.json. parses: credentials_json is JSON.
AuthParse(j, parses) ==
    /\ pc[j] = "a_parse"
    /\ IF ~parses
       THEN /\ AuthFails(j, "parse")
            /\ UNCHANGED temp_cred
       ELSE /\ temp_cred' = j
            /\ auth' = [auth EXCEPT ![j].did = @ \cup {"wrote_temp"}]
            /\ pc' = [pc EXCEPT ![j] = "a_load"]
            /\ UNCHANGED ret
    /\ UNCHANGED <<stage, cb, events, retPath, youtube_service, token, tokenSid, serviceSid>>
    /\ Unchanged_NotAuth

\* Lines 182-188: token.pickle is loaded if it exists, and the test of the
\* session. pickle.load raises on a truncated file.
AuthLoad(j) ==
    /\ pc[j] = "a_load"
    /\ IF token = "partial"
       THEN AuthFails(j, "load")
       ELSE LET c == IF token = "absent" THEN "None" ELSE token
                s == IF token = "absent" THEN NoSid ELSE tokenSid
            IN  /\ auth' = [auth EXCEPT ![j].creds = c, ![j].sid = s,
                                        ![j].found = token, ![j].foundSid = s]
                /\ pc' = [pc EXCEPT ![j] = IF NeedsLogin(c) THEN "a_login" ELSE "a_build"]
                /\ UNCHANGED ret
    /\ UNCHANGED <<stage, cb, events, retPath, youtube_service, token, temp_cred, tokenSid,
                   serviceSid>>
    /\ Unchanged_NotAuth

\* Lines 189-196: creds.refresh for an expired session with a refresh token,
\* else the interactive flow, which reads temp_client_secret.json. raises:
\* the refresh or the consent fails.
AuthLogin(j, raises) ==
    /\ pc[j] = "a_login"
    /\ IF auth[j].creds = "expired_rt"
       THEN IF raises
            THEN AuthFails(j, "refresh")
            ELSE /\ auth' = [auth EXCEPT ![j].creds = "valid",
                                         ![j].did = @ \cup {"refresh"}]
                 /\ pc' = [pc EXCEPT ![j] = "a_open"]
                 /\ UNCHANGED ret
       ELSE IF raises \/ temp_cred = NoJob
            THEN AuthFails(j, "flow")
            ELSE /\ auth' = [auth EXCEPT ![j].creds = "valid", ![j].sid = j,
                                         ![j].did = @ \cup {"flow"}]
                 /\ pc' = [pc EXCEPT ![j] = "a_open"]
                 /\ UNCHANGED ret
    /\ UNCHANGED <<stage, cb, events, retPath, youtube_service, token, temp_cred, tokenSid,
                   serviceSid>>
    /\ Unchanged_NotAuth

\* Line 198: open('token.pickle', 'wb') truncates the file in place.
AuthOpenToken(j) ==
    /\ pc[j] = "a_open"
    /\ token' = "partial"
    /\ tokenSid' = NoSid
    /\ auth' = [auth EXCEPT ![j].did = @ \cup {"wrote_token"}]
    /\ pc' = [pc EXCEPT ![j] = "a_dump"]
    /\ UNCHANGED <<stage, cb, events, ret, retPath, youtube_service, temp_cred, serviceSid>>
    /\ Unchanged_NotAuth

\* Line 199: pickle.dump(creds, token), and the file is closed.
AuthDump(j) ==
    /\ pc[j] = "a_dump"
    /\ token' = "valid"
    /\ tokenSid' = auth[j].sid
    /\ pc' = [pc EXCEPT ![j] = "a_build"]
    /\ UNCHANGED <<stage, cb, events, ret, retPath, youtube_service, temp_cred, serviceSid,
                   auth>>
    /\ Unchanged_NotAuth

\* Lines 201-202: self.youtube_service = build('youtube', 'v3', credentials=creds)
AuthBuild(j, raises) ==
    /\ pc[j] = "a_build"
    /\ IF raises
       THEN /\ AuthFails(j, "build")
            /\ UNCHANGED <<youtube_service, serviceSid>>
       ELSE /\ youtube_service' = "service"
            /\ serviceSid' = auth[j].sid
            /\ auth' = [auth EXCEPT ![j].built = auth[j].sid,
                                    ![j].did = @ \cup {"set_service"}]
            /\ pc' = [pc EXCEPT ![j] = "a_remove"]
            /\ UNCHANGED ret
    /\ UNCHANGED <<stage, cb, events, retPath, token, temp_cred, tokenSid>>
    /\ Unchanged_NotAuth

\* Lines 204-207: os.remove(temp_cred_file), which raises when the file is
\* gone (raises: or for another reason), then (True, message).
AuthRemove(j, raises) ==
    /\ pc[j] = "a_remove"
    /\ IF raises \/ temp_cred = NoJob
       THEN /\ AuthFails(j, "remove")
            /\ UNCHANGED temp_cred
       ELSE /\ temp_cred' = NoJob
            /\ ret' = [ret EXCEPT ![j] = "ok"]
            /\ pc' = [pc EXCEPT ![j] = "done"]
            /\ UNCHANGED auth
    /\ UNCHANGED <<stage, cb, events, retPath, youtube_service, token, tokenSid, serviceSid>>
    /\ Unchanged_NotAuth

\* The stored access token runs out (creds.valid turns false, creds.expired true).
TokenExpires ==
    /\ token = "valid"
    /\ token' = "expired_rt"
    /\ UNCHANGED <<varsCommon, youtube_service, temp_cred, tokenSid, serviceSid, auth>>
    /\ Unchanged_NotAuth

----------------------------------------------------------------------------
(* upload_video *)

\* int(status.progress() * 100), status.progress() being s / TotalSize
Progress(s) == (s * 100) \div TotalSize

\* The scaling by 0.7 left out: 30 + progress.
ChunkPercent_Unscaled(progress) == 300 + progress * 10

\* 30 + progress * 0.7, in tenths
ChunkPercent(progress) == 300 + progress * 7

\* The loop never ends of itself.
LoopContinues_Always(resp) == TRUE

\* `while response is None`, resp being that a response was returned
LoopContinues(resp) == ~resp

\* The except branch reports nothing to the callback.
UploadFails_Silent(j, seq) ==
    /\ events' = [events EXCEPT ![j] = seq]
    /\ ret' = [ret EXCEPT ![j] = "False"]
    /\ pc' = [pc EXCEPT ![j] = "done"]

\* The except branch of upload_video: one 0/error event, (False, message).
UploadFails(j, seq) ==
    /\ events' = [events EXCEPT ![j] = Cb(seq, cb[j], 0, "error")]
    /\ ret' = [ret EXCEPT ![j] = "False"]
    /\ pc' = [pc EXCEPT ![j] = "done"]

\* processor.upload_video(file_path, title, ..., progress_callback) is called.
UploadCall(j, t, c) ==
    /\ Idle(j)
    /\ Fresh(j, "upload", c)
    /\ pc' = [pc EXCEPT ![j] = "u_begin"]
    /\ title' = [title EXCEPT ![j] = t]
    /\ request' = [request EXCEPT ![j] = FALSE]
    /\ chunks' = [chunks EXCEPT ![j] = 0]
    /\ sent' = [sent EXCEPT ![j] = 0]
    /\ statuses' = [statuses EXCEPT ![j] = <<>>]
    /\ response' = [response EXCEPT ![j] = FALSE]
    /\ UNCHANGED <<varsAuth, varsDownload, target, varsConvert, varsIntake, varsRoutes>>

\* Lines 217-248: the 10 and 20 events, the body, the media object and the
\* insert request. mediaOk: MediaFileUpload opened the file.
UploadBegin(j, mediaOk) ==
    /\ pc[j] = "u_begin"
    /\ LET e10 == Cb(events[j], cb[j], 100, "info")
           e20 == Cb(e10, cb[j], 200, "info")
       IN  IF ~mediaOk
           THEN /\ UploadFails(j, e10)
                /\ UNCHANGED request
           ELSE IF youtube_service = "None"
           THEN \* None has no attribute videos
                /\ UploadFails(j, e20)
                /\ UNCHANGED request
           ELSE /\ events' = [events EXCEPT ![j] = e20]
                /\ request' = [request EXCEPT ![j] = TRUE]
                /\ pc' = [pc EXCEPT ![j] = "u_loop"]
                /\ UNCHANGED ret
    /\ UNCHANGED <<stage, cb, retPath, title, chunks, sent, statuses, response, varsAuth,
                   varsDownload, target, varsConvert, varsIntake, varsRoutes>>

\* One turn of `while response is None`: the 30 event, next_chunk, and the
\* event of its status. The transport acknowledges s units in all
\* (hasStatus: it returns a status), returns the terminal response (done), or
\* raises.
UploadChunk(j, hasStatus, s, done, raises) ==
    /\ pc[j] = "u_loop"
    /\ LoopContinues(response[j])
    /\ s >= sent[j]
    /\ hasStatus \/ done \/ raises
    /\ ~hasStatus => s = sent[j]
    /\ chunks[j] + 1 >= MaxChunks => (done \/ raises)
    /\ chunks' = [chunks EXCEPT ![j] = @ + 1]
    /\ LET e30 == Cb(events[j], cb[j], 300, "info")
       IN  IF raises
           THEN /\ UploadFails(j, e30)
                /\ UNCHANGED <<sent, statuses, response>>
           ELSE /\ events' = [events EXCEPT ![j] =
                      IF hasStatus
                      THEN Cb(e30, cb[j], ChunkPercent(Progress(s)), "info")
                      ELSE e30]
                /\ sent' = [sent EXCEPT ![j] = s]
                /\ statuses' = [statuses EXCEPT ![j] =
                      Append(@, IF hasStatus THEN s ELSE NoStatus)]
                /\ response' = [response EXCEPT ![j] = done]
                /\ UNCHANGED <<pc, ret>>
    /\ UNCHANGED <<stage, cb, retPath, title, request, varsAuth,
                   varsDownload, target, varsConvert, varsIntake, varsRoutes>>

\* Lines 261-264: the loop has ended, the 100 event, (True, response).
UploadEnd(j) ==
    /\ pc[j] = "u_loop"
    /\ ~LoopContinues(response[j])
    /\ events' = [events EXCEPT ![j] = Cb(@, cb[j], 1000, "info")]
    /\ ret' = [ret EXCEPT ![j] = "ok"]
    /\ pc' = [pc EXCEPT ![j] = "done"]
    /\ UNCHANGED <<stage, cb, retPath, title, request, chunks, sent, statuses, response, varsAuth,
                   varsDownload, target, varsConvert, varsIntake, varsRoutes>>

----------------------------------------------------------------------------
(* download_video *)

Unchanged_NotDownload ==
    UNCHANGED <<varsAuth, varsUpload, varsConvert, varsIntake, varsRoutes>>

\* f"video_{int(time.time())}.mp4" under the upload folder
VideoName(t) == <<UPLOAD_FOLDER, "video_" \o ToString(t) \o ".mp4">>

\* The path stream.download gives: the video's own file name under the
\* upload folder.
StreamPath == <<UPLOAD_FOLDER, "title.mp4">>

\* The except branch of download_video: one 0/error event, None.
DownloadFails(j, seq) ==
    /\ events' = [events EXCEPT ![j] = Cb(seq, cb[j], 0, "error")]
    /\ ret' = [ret EXCEPT ![j] = "None"]
    /\ pc' = [pc EXCEPT ![j] = "done"]

\* The `if not stream` branch: the error is logged and None returned.
NoStream(j, seq) ==
    /\ events' = [events EXCEPT ![j] = seq]
    /\ ret' = [ret EXCEPT ![j] = "None"]
    /\ pc' = [pc EXCEPT ![j] = "done"]

\* processor.download_video(url, progress_callback) is called.
DownloadCall(j, u, c) ==
    /\ Idle(j)
    /\ Fresh(j, "download", c)
    /\ pc' = [pc EXCEPT ![j] = "d_begin"]
    /\ url' = [url EXCEPT ![j] = u]
    /\ target' = [target EXCEPT ![j] = NoPath]
    /\ UNCHANGED clock
    /\ Unchanged_NotDownload

\* Lines 49-79: the 10 event, then by the kind of url either the stream is
\* chosen (resolved: pytube answered; stream: it has a progressive mp4) and
\* the 30 event emitted, or the 50 event emitted and the file named after the
\* clock.
DownloadBegin(j, resolved, stream) ==
    /\ pc[j] = "d_begin"
    /\ url[j] = "generic" => (resolved /\ stream)
    /\ ~resolved => stream
    /\ LET e10 == Cb(events[j], cb[j], 100, "info")
       IN  IF url[j] = "youtube"
           THEN IF ~resolved
                THEN DownloadFails(j, e10) /\ UNCHANGED target
                ELSE IF ~stream
                THEN NoStream(j, e10) /\ UNCHANGED target
                ELSE /\ events' = [events EXCEPT ![j] = Cb(e10, cb[j], 300, "info")]
                     /\ target' = [target EXCEPT ![j] = StreamPath]
                     /\ pc' = [pc EXCEPT ![j] = "d_transfer"]
                     /\ UNCHANGED ret
           ELSE /\ events' = [events EXCEPT ![j] = Cb(e10, cb[j], 500, "info")]
                /\ target' = [target EXCEPT ![j] = VideoName(clock)]
                /\ pc' = [pc EXCEPT ![j] = "d_transfer"]
                /\ UNCHANGED ret
    /\ UNCHANGED <<stage, cb, retPath, clock, url>>
    /\ Unchanged_NotDownload

\* stream.download or urlretrieve writes the file at target[j], or raises;
\* then the 100 event and the path.
DownloadTransfer(j, raises) ==
    /\ pc[j] = "d_transfer"
    /\ IF raises
       THEN DownloadFails(j, events[j]) /\ UNCHANGED retPath
       ELSE /\ events' = [events EXCEPT ![j] = Cb(@, cb[j], 1000, "info")]
            /\ ret' = [ret EXCEPT ![j] = "ok"]
            /\ retPath' = [retPath EXCEPT ![j] = target[j]]
            /\ pc' = [pc EXCEPT ![j] = "done"]
    /\ UNCHANGED <<stage, cb, clock, url, target>>
    /\ Unchanged_NotDownload

\* A second passes.
Tick ==
    /\ clock < MaxClock
    /\ clock' = clock + 1
    /\ UNCHANGED <<varsCommon, url, target>>
    /\ Unchanged_NotDownload

----------------------------------------------------------------------------
(* convert_to_shorts_format *)

Unchanged_NotConvert ==
    UNCHANGED <<varsAuth, varsUpload, varsDownload, varsIntake, varsRoutes>>

Abs(x) == IF x < 0 THEN -x ELSE x

\* abs(width/height - 9/16) > 0.1, both sides multiplied by 160 * height
NeedsCrop(w, h) == 10 * Abs(16 * w - 9 * h) > 16 * h

\* The comparison turned round.
TooWide_Inverted(w, h) == 16 * w < 9 * h

\* current_aspect_ratio > target_aspect_ratio
TooWide(w, h) == 16 * w > 9 * h

\* The height divided by the target ratio instead of multiplied.
NewWidth_Divided(h) == (16 * h) \div 9

\* int(height * target_aspect_ratio)
NewWidth(h) == (9 * h) \div 16

\* int(width / target_aspect_ratio)
NewHeight(w) == (16 * w) \div 9

\* The rectangle <<x1, y1, x2, y2>> given to clip.crop, each coordinate
\* doubled.
CropRect(w, h) ==
    IF TooWide(w, h)
    THEN <<w - NewWidth(h), 0, w + NewWidth(h), 2 * h>>
    ELSE <<0, h - NewHeight(w), 2 * w, h + NewHeight(w)>>

\* os.path.join(PROCESSED_FOLDER, f"shorts_{os.path.basename(video_path)}")
ShortsPath(path) == <<PROCESSED_FOLDER, "shorts_" \o path[2]>>

\* The except branch of convert_to_shorts_format: one 0/error event, None.
\* The clip is left as it is.
ConvertFails(j, seq) ==
    /\ events' = [events EXCEPT ![j] = Cb(seq, cb[j], 0, "error")]
    /\ ret' = [ret EXCEPT ![j] = "None"]
    /\ pc' = [pc EXCEPT ![j] = "done"]

\* processor.convert_to_shorts_format(video_path, progress_callback) is
\* called on a file of w x h pixels and d seconds.
ConvertCall(j, path, w, h, d, c) ==
    /\ Idle(j)
    /\ Fresh(j, "convert", c)
    /\ pc' = [pc EXCEPT ![j] = "c_load"]
    /\ video_path' = [video_path EXCEPT ![j] = path]
    /\ source' = [source EXCEPT ![j] = [w |-> w, h |-> h, dur |-> d]]
    /\ clip' = [clip EXCEPT ![j] = NoClip]
    /\ target' = [target EXCEPT ![j] = NoPath]
    /\ Unchanged_NotConvert

\* Lines 97-106: the 10 event, VideoFileClip(video_path), the 30 event.
ConvertLoad(j, raises) ==
    /\ pc[j] = "c_load"
    /\ LET e10 == Cb(events[j], cb[j], 100, "info")
       IN  IF raises
           THEN ConvertFails(j, e10) /\ UNCHANGED clip
           ELSE /\ clip' = [clip EXCEPT ![j] =
                      [open |-> TRUE, w |-> source[j].w, h |-> source[j].h,
                       dur |-> source[j].dur, crop |-> <<>>]]
                /\ events' = [events EXCEPT ![j] = Cb(e10, cb[j], 300, "info")]
                /\ pc' = [pc EXCEPT ![j] = "c_trim"]
                /\ UNCHANGED ret
    /\ UNCHANGED <<stage, cb, retPath, target, video_path, source>>
    /\ Unchanged_NotConvert

\* Lines 108-114: clip.subclip(0, 60) of a clip longer than 60 seconds, the
\* 50 event.
ConvertTrim(j, raises) ==
    /\ pc[j] = "c_trim"
    /\ raises => clip[j].dur > 60
    /\ IF raises
       THEN ConvertFails(j, events[j]) /\ UNCHANGED clip
       ELSE /\ clip' = [clip EXCEPT ![j].dur = IF @ > 60 THEN 60 ELSE @]
            /\ events' = [events EXCEPT ![j] = Cb(@, cb[j], 500, "info")]
            /\ pc' = [pc EXCEPT ![j] = "c_crop"]
            /\ UNCHANGED ret
    /\ UNCHANGED <<stage, cb, retPath, target, video_path, source>>
    /\ Unchanged_NotConvert

\* Lines 116-146: the aspect ratio, clip.crop of a clip too far from 9:16,
\* the output path, the 70 event.
ConvertCrop(j, raises) ==
    /\ pc[j] = "c_crop"
    /\ raises => NeedsCrop(clip[j].w, clip[j].h)
    /\ IF raises
       THEN ConvertFails(j, events[j]) /\ UNCHANGED <<clip, target>>
       ELSE /\ clip' = [clip EXCEPT ![j].crop =
                      IF NeedsCrop(clip[j].w, clip[j].h)
                      THEN CropRect(clip[j].w, clip[j].h)
                      ELSE <<>>]
            /\ target' = [target EXCEPT ![j] = ShortsPath(video_path[j])]
            /\ events' = [events EXCEPT ![j] = Cb(@, cb[j], 700, "info")]
            /\ pc' = [pc EXCEPT ![j] = "c_write"]
            /\ UNCHANGED ret
    /\ UNCHANGED <<stage, cb, retPath, video_path, source>>
    /\ Unchanged_NotConvert

\* Lines 149-163: clip.write_videofile(output_path, ...) writes target[j],
\* or raises; then clip.close(), the 100 event, the output path.
ConvertWrite(j, raises) ==
    /\ pc[j] = "c_write"
    /\ IF raises
       THEN ConvertFails(j, events[j]) /\ UNCHANGED <<clip, retPath>>
       ELSE /\ clip' = [clip EXCEPT ![j].open = FALSE]
            /\ events' = [events EXCEPT ![j] = Cb(@, cb[j], 1000, "info")]
            /\ ret' = [ret EXCEPT ![j] = "ok"]
            /\ retPath' = [retPath EXCEPT ![j] = target[j]]
            /\ pc' = [pc EXCEPT ![j] = "done"]
    /\ UNCHANGED <<stage, cb, target, video_path, source>>
    /\ Unchanged_NotConvert

----------------------------------------------------------------------------
(* upload_file *)

Unchanged_NotIntake ==
    UNCHANGED <<varsAuth, varsUpload, varsDownload, varsConvert, varsRoutes>>

\* werkzeug's secure_filename on the names of Filenames: the directory part
\* is dropped and a blank becomes an underscore.
SecureFilename(f) ==
    CASE f = "../a.mp4" -> "a.mp4"
      [] f = "b c.mp4" -> "b_c.mp4"
      [] OTHER -> f

\* A POST to /api/upload_file arrives, with a file part named f or with none.
IntakeCall(j, f) ==
    /\ Idle(j)
    /\ Fresh(j, "upload_file", FALSE)
    /\ pc' = [pc EXCEPT ![j] = "f_begin"]
    /\ filename' = [filename EXCEPT ![j] = f]
    /\ http' = [http EXCEPT ![j] = 0]
    /\ target' = [target EXCEPT ![j] = NoPath]
    /\ Unchanged_NotIntake

\* Lines 387-396: the two rejections, else the stored path is chosen.
IntakeBegin(j) ==
    /\ pc[j] = "f_begin"
    /\ IF filename[j] = NoFile \/ filename[j] = ""
       THEN /\ http' = [http EXCEPT ![j] = 400]
            /\ ret' = [ret EXCEPT ![j] = "False"]
            /\ pc' = [pc EXCEPT ![j] = "done"]
            /\ UNCHANGED target
       ELSE /\ target' = [target EXCEPT ![j] =
                      <<UPLOAD_FOLDER, SecureFilename(filename[j])>>]
            /\ pc' = [pc EXCEPT ![j] = "f_save"]
            /\ UNCHANGED <<http, ret>>
    /\ UNCHANGED <<stage, cb, events, retPath, filename>>
    /\ Unchanged_NotIntake

\* Lines 397-406: file.save(file_path) writes target[j], or raises; the
\* response.
IntakeSave(j, raises) ==
    /\ pc[j] = "f_save"
    /\ IF raises
       THEN /\ http' = [http EXCEPT ![j] = 500]
            /\ ret' = [ret EXCEPT ![j] = "False"]
            /\ UNCHANGED retPath
       ELSE /\ http' = [http EXCEPT ![j] = 200]
            /\ ret' = [ret EXCEPT ![j] = "ok"]
            /\ retPath' = [retPath EXCEPT ![j] = target[j]]
    /\ pc' = [pc EXCEPT ![j] = "done"]
    /\ UNCHANGED <<stage, cb, events, target, filename>>
    /\ Unchanged_NotIntake

----------------------------------------------------------------------------
(* The trigger routes: /api/download, /api/process, /api/upload *)

\* A request: body, its JSON body is an object; arg, its 'url' or
\* 'video_path' ("" if missing); exists, os.path.exists(video_path); title.
Req(b, a, x, t) == [body |-> b, arg |-> a, exists |-> x, title |-> t]

\* The requests a client sends to each route.
NoBody == Req(FALSE, "", FALSE, "")
DownloadRequests == {NoBody} \cup {Req(TRUE, a, FALSE, "") : a \in {"", "youtube", "generic"}}
PathRequests(ts) ==
    {NoBody} \cup {Req(TRUE, "", FALSE, t) : t \in ts}
             \cup {Req(TRUE, "a.mp4", x, t) : x \in BOOLEAN, t \in ts}
ProcessRequests == PathRequests({""})
UploadRequests == PathRequests(Titles)

\* `if not video_url`
DownloadFieldsOk(req) == req.arg # ""

\* `if not video_path or not os.path.exists(video_path)`
ProcessFieldsOk(req) == req.arg # "" /\ req.exists

\* The title is not asked for.
UploadFieldsOk_NoTitle(req) == req.arg # "" /\ req.exists

\* `if not video_path or not os.path.exists(video_path) or not title`
UploadFieldsOk(req) == req.arg # "" /\ req.exists /\ req.title # ""

Unchanged_NotRoutes ==
    UNCHANGED <<varsCommon, varsAuth, varsUpload, varsDownload, target, varsConvert,
                varsIntake>>

\* The body of a trigger route, fieldsOk being its test of the fields: the
\* except branch (500) when the body is no JSON object, the 400 response, or
\* thread.start() for job j and the 200 response.
Trigger(rt, fieldsOk, j, req) ==
    /\ IF ~req.body
       THEN /\ reply' = [route |-> rt, req |-> req, status |-> 500, error |-> TRUE]
            /\ UNCHANGED dispatch
       ELSE IF ~fieldsOk
       THEN /\ reply' = [route |-> rt, req |-> req, status |-> 400, error |-> TRUE]
            /\ UNCHANGED dispatch
       ELSE /\ Idle(j)
            /\ dispatch[j] = NoThread
            /\ dispatch' = [dispatch EXCEPT ![j] =
                      [route |-> rt, arg |-> req.arg, title |-> req.title]]
            /\ reply' = [route |-> rt, req |-> req, status |-> 200, error |-> FALSE]
    /\ Unchanged_NotRoutes

\* POST /api/download
TriggerDownload(j, req) == Trigger("download", DownloadFieldsOk(req), j, req)

\* POST /api/process
TriggerProcess(j, req) == Trigger("process", ProcessFieldsOk(req), j, req)

\* POST /api/upload
TriggerUpload(j, req) == Trigger("upload", UploadFieldsOk(req), j, req)

\* download_task: the thread calls processor.download_video(video_url).
TaskDownload(j) ==
    /\ dispatch[j].route = "download"
    /\ DownloadCall(j, dispatch[j].arg, FALSE)

\* process_task: the thread calls processor.convert_to_shorts_format(video_path),
\* the file being a 1920x1080 video of 90 seconds.
TaskProcess(j) ==
    /\ dispatch[j].route = "process"
    /\ ConvertCall(j, <<UPLOAD_FOLDER, dispatch[j].arg>>, 1920, 1080, 90, FALSE)

\* upload_task: the thread calls processor.upload_video(video_path, title, ...).
TaskUpload(j) ==
    /\ dispatch[j].route = "upload"
    /\ UploadCall(j, dispatch[j].title, FALSE)

\* What download_task, process_task and upload_task keep of the stage's
\* result for the caller: the result is a local of the task and the except
\* branch only logs, so nothing.
JobRecord(j) == "none"

----------------------------------------------------------------------------

Init ==
    /\ pc = [j \in Jobs |-> "idle"]
    /\ stage = [j \in Jobs |-> "none"]
    /\ cb = [j \in Jobs |-> FALSE]
    /\ events = [j \in Jobs |-> <<>>]
    /\ ret = [j \in Jobs |-> "pending"]
    /\ retPath = [j \in Jobs |-> NoPath]
    /\ youtube_service = "None"
    /\ token \in {"absent", "valid", "expired_rt", "invalid"}
    /\ temp_cred = NoJob
    /\ tokenSid = IF token = "absent" THEN NoSid ELSE StoredSid
    /\ serviceSid = NoSid
    /\ auth = [j \in Jobs |-> NoAuth]
    /\ title = [j \in Jobs |-> ""]
    /\ request = [j \in Jobs |-> FALSE]
    /\ chunks = [j \in Jobs |-> 0]
    /\ sent = [j \in Jobs |-> 0]
    /\ statuses = [j \in Jobs |-> <<>>]
    /\ response = [j \in Jobs |-> FALSE]
    /\ clock = 0
    /\ url = [j \in Jobs |-> "generic"]
    /\ target = [j \in Jobs |-> NoPath]
    /\ video_path = [j \in Jobs |-> NoPath]
    /\ source = [j \in Jobs |-> NoSource]
    /\ clip = [j \in Jobs |-> NoClip]
    /\ filename = [j \in Jobs |-> NoFile]
    /\ http = [j \in Jobs |-> 0]
    /\ dispatch = [j \in Jobs |-> NoThread]
    /\ reply = NoReply

\* The steps of one authenticate_youtube call of job j.
AuthSteps(j) ==
    \/ AuthCall(j)
    \/ \E p \in BOOLEAN : AuthParse(j, p)
    \/ AuthLoad(j)
    \/ \E r \in BOOLEAN : AuthLogin(j, r)
    \/ AuthOpenToken(j)
    \/ AuthDump(j)
    \/ \E r \in BOOLEAN : AuthBuild(j, r)
    \/ \E r \in BOOLEAN : AuthRemove(j, r)

\* Two authenticate_youtube calls side by side (the /api/authenticate route
\* runs each in its request thread), on any stored session.
NextAuth ==
    \/ \E j \in Jobs : AuthSteps(j)
    \/ TokenExpires

SpecAuth == Init /\ [][NextAuth]_vars

\* A first run: no session has been stored yet.
InitFirstRun == Init /\ token = "absent"

\* One upload_video invocation, beside one authenticate_youtube call.
NextUpload ==
    \/ AuthSteps(2)
    \/ \E t \in Titles, c \in BOOLEAN : UploadCall(1, t, c)
    \/ \E m \in BOOLEAN : UploadBegin(1, m)
    \/ \E h \in BOOLEAN, s \in 0..TotalSize, d \in BOOLEAN, r \in BOOLEAN :
           UploadChunk(1, h, s, d, r)
    \/ UploadEnd(1)

SpecUpload == InitFirstRun /\ [][NextUpload]_vars

\* The steps of the upload_video invocation of job 1.
UploadSteps ==
    \/ \E m \in BOOLEAN : UploadBegin(1, m)
    \/ \E h \in BOOLEAN, s \in 0..TotalSize, d \in BOOLEAN, r \in BOOLEAN :
           UploadChunk(1, h, s, d, r)
    \/ UploadEnd(1)

\* One upload_video invocation of one title, beside one authenticate_youtube
\* call.
NextUploadLive ==
    \/ AuthSteps(2)
    \/ \E c \in BOOLEAN : UploadCall(1, "clip", c)
    \/ UploadSteps

\* The thread that runs upload_video is scheduled until it returns.
SpecUploadLive == InitFirstRun /\ [][NextUploadLive]_vars /\ WF_vars(UploadSteps)

\* Two download_video invocations side by side.
NextDownload ==
    \/ \E j \in Jobs, u \in {"youtube", "generic"}, c \in BOOLEAN : DownloadCall(j, u, c)
    \/ \E j \in Jobs, r \in BOOLEAN, st \in BOOLEAN : DownloadBegin(j, r, st)
    \/ \E j \in Jobs, r \in BOOLEAN : DownloadTransfer(j, r)
    \/ Tick

SpecDownload == InitFirstRun /\ [][NextDownload]_vars

\* One convert_to_shorts_format invocation at a time, on any source.
NextConvert ==
    \/ /\ Idle(1)
       /\ \E w \in Dims, h \in Dims, d \in Durations, c \in BOOLEAN :
              ConvertCall(1, <<UPLOAD_FOLDER, "a.mp4">>, w, h, d, c)
    \/ \E r \in BOOLEAN : ConvertLoad(1, r)
    \/ \E r \in BOOLEAN : ConvertTrim(1, r)
    \/ \E r \in BOOLEAN : ConvertCrop(1, r)
    \/ \E r \in BOOLEAN : ConvertWrite(1, r)

SpecConvert == InitFirstRun /\ [][NextConvert]_vars

\* Jobs that write the shared directories side by side: conversions of
\* 1920x1080 sources of 90 seconds, and file intakes.
NextPaths ==
    \/ \E j \in Jobs, p \in SourcePaths : ConvertCall(j, p, 1920, 1080, 90, FALSE)
    \/ \E j \in Jobs, r \in BOOLEAN : ConvertLoad(j, r)
    \/ \E j \in Jobs, r \in BOOLEAN : ConvertTrim(j, r)
    \/ \E j \in Jobs, r \in BOOLEAN : ConvertCrop(j, r)
    \/ \E j \in Jobs, r \in BOOLEAN : ConvertWrite(j, r)
    \/ \E j \in Jobs, f \in Filenames \cup {NoFile} : IntakeCall(j, f)
    \/ \E j \in Jobs : IntakeBegin(j)
    \/ \E j \in Jobs, r \in BOOLEAN : IntakeSave(j, r)

SpecPaths == InitFirstRun /\ [][NextPaths]_vars

\* The trigger routes and the threads they start, beside one
\* /api/authenticate request, which runs in its own request thread. Each
\* next_chunk returns no status.
NextRoutes ==
    \/ \E j \in Jobs, req \in DownloadRequests : TriggerDownload(j, req)
    \/ \E j \in Jobs, req \in ProcessRequests : TriggerProcess(j, req)
    \/ \E j \in Jobs, req \in UploadRequests : TriggerUpload(j, req)
    \/ \E j \in Jobs : TaskDownload(j)
    \/ \E j \in Jobs : TaskProcess(j)
    \/ \E j \in Jobs : TaskUpload(j)
    \/ \E j \in Jobs, r \in BOOLEAN, st \in BOOLEAN : DownloadBegin(j, r, st)
    \/ \E j \in Jobs, r \in BOOLEAN : DownloadTransfer(j, r)
    \/ \E j \in Jobs, r \in BOOLEAN : ConvertLoad(j, r)
    \/ \E j \in Jobs, r \in BOOLEAN : ConvertTrim(j, r)
    \/ \E j \in Jobs, r \in BOOLEAN : ConvertCrop(j, r)
    \/ \E j \in Jobs, r \in BOOLEAN : ConvertWrite(j, r)
    \/ \E j \in Jobs, m \in BOOLEAN : UploadBegin(j, m)
    \/ \E j \in Jobs, d \in BOOLEAN, r \in BOOLEAN : UploadChunk(j, FALSE, sent[j], d, r)
    \/ \E j \in Jobs : UploadEnd(j)
    \/ dispatch[2] = NoThread /\ AuthSteps(2)

SpecRoutes == InitFirstRun /\ [][NextRoutes]_vars

\* Every job may run any stage, on any input, beside authenticate_youtube.
Next ==
    \/ NextAuth
    \/ \E j \in Jobs, t \in Titles, c \in BOOLEAN : UploadCall(j, t, c)
    \/ \E j \in Jobs, m \in BOOLEAN : UploadBegin(j, m)
    \/ \E j \in Jobs, h \in BOOLEAN, s \in 0..TotalSize, d \in BOOLEAN, r \in BOOLEAN :
           UploadChunk(j, h, s, d, r)
    \/ \E j \in Jobs : UploadEnd(j)
    \/ NextDownload
    \/ \E j \in Jobs :
           /\ Idle(j)
           /\ \E p \in SourcePaths, w \in Dims, h \in Dims, d \in Durations, c \in BOOLEAN :
                  ConvertCall(j, p, w, h, d, c)
    \/ NextPaths
    \/ NextRoutes

Spec == Init /\ [][Next]_vars

----------------------------------------------------------------------------
(* Claims *)

Last(seq) == seq[Len(seq)]
Percent(e) == e[1]

\* C1: within one stage invocation the percents passed to progress_callback
\* never decrease, except for a final 0/error event, and a finished
\* invocation that reported at all ends with 100 or with the 0/error event.
C1_ProgressMonotone ==
    \A j \in Jobs :
        /\ \A i, k \in 1..Len(events[j]) :
              (i < k /\ Percent(events[j][k]) < Percent(events[j][i]))
                  => (k = Len(events[j]) /\ events[j][k] = <<0, "error">>)
        /\ (pc[j] = "done" /\ stage[j] = "upload" /\ cb[j])
              => Last(events[j]) \in {<<1000, "info">>, <<0, "error">>}

\* C2: convert_to_shorts_format never returns with the clip it opened still
\* open.
C2_ClipReleased ==
    \A j \in Jobs :
        (stage[j] = "convert" /\ pc[j] = "done") => ~clip[j].open

\* C3: upload_video called with an empty title is rejected: it never creates
\* the insert request, never calls next_chunk, and ends as a failure.
C3_EmptyTitleRejected ==
    \A j \in Jobs :
        (stage[j] = "upload" /\ title[j] = "")
            => /\ ~request[j]
               /\ chunks[j] = 0
               /\ pc[j] = "done" => ret[j] = "False"

\* The transport of C4: five statuses 0.0, 0.25, 0.5, 0.75, 1.0, the terminal
\* response on the last call.
QuarterTransport(j) ==
    /\ Len(statuses[j]) = 5
    /\ \A i \in 1..5 : statuses[j][i] * 4 = (i - 1) * TotalSize
    /\ response[j]

\* C4: with that transport, the events of the transfer phase (all after the
\* 10 and 20 events) are 30, 47.5, 65, 82.5, 100 and nothing else.
C4_QuarterStepEvents ==
    \A j \in Jobs :
        (stage[j] = "upload" /\ cb[j] /\ pc[j] = "done" /\ QuarterTransport(j))
            => [i \in 1..(Len(events[j]) - 2) |-> Percent(events[j][i + 2])]
                   = <<300, 475, 650, 825, 1000>>

\* The events a step of job j appends.
NewEvents(j) == {k \in 1..Len(events'[j]) : k > Len(events[j])}
\* Job j's next_chunk returned a status in this step.
GotStatus(j) ==
    /\ Len(statuses'[j]) = Len(statuses[j]) + 1
    /\ Last(statuses'[j]) # NoStatus

\* C5 as stated: the percent reported for a status of fraction p is
\* 30 + 70 p, and no percent under 30 is emitted once the first chunk has
\* been requested.
C5_LinearMap ==
    [][\A j \in Jobs :
         (pc[j] = "u_loop" /\ cb[j] /\ chunks'[j] = chunks[j] + 1)
            => /\ GotStatus(j) =>
                    Percent(Last(events'[j])) * TotalSize
                        = 300 * TotalSize + 700 * Last(statuses'[j])
               /\ \A k \in NewEvents(j) : Percent(events'[j][k]) >= 300]_vars

\* C5 amended: the percent reported for a status of fraction p is
\* 30 + 0.7 * floor(100 p): in [30, 100], at most 30 + 70 p and less than 0.7
\* under it; once the first chunk has been requested the only percent
\* under 30 is that of the 0/error event which ends a failing call.
C5_QuantisedMap ==
    [][\A j \in Jobs :
         (pc[j] = "u_loop" /\ cb[j] /\ chunks'[j] = chunks[j] + 1)
            => /\ GotStatus(j) =>
                    LET s == Last(statuses'[j])
                        pct == Percent(Last(events'[j]))
                        exact == 300 * TotalSize + 700 * s
                    IN  /\ pct = 300 + 7 * ((100 * s) \div TotalSize)
                        /\ pct >= 300 /\ pct <= 1000
                        /\ pct * TotalSize <= exact
                        /\ exact - pct * TotalSize < 7 * TotalSize
               /\ \A k \in NewEvents(j) :
                    Percent(events'[j][k]) < 300
                        => /\ events'[j][k] = <<0, "error">>
                           /\ k = Len(events'[j])
                           /\ pc'[j] = "done" /\ ret'[j] = "False"]_vars

\* C5's case: a status whose fraction is no whole percent has been reported.
C5_Witness ==
    \E j \in Jobs :
        /\ pc[j] = "u_loop" /\ cb[j] /\ statuses[j] # <<>>
        /\ Last(statuses[j]) # NoStatus
        /\ (100 * Last(statuses[j])) % TotalSize # 0
        /\ Percent(Last(events[j])) = 300 + 7 * ((100 * Last(statuses[j])) \div TotalSize)

\* Job j is in a generic download and has named its file.
GenericTransfer(j) ==
    stage[j] = "download" /\ url[j] = "generic" /\ pc[j] = "d_transfer"

\* C6: two generic downloads running side by side never write the same path.
C6_DistinctGenericPaths ==
    \A j1, j2 \in Jobs :
        (j1 # j2 /\ GenericTransfer(j1) /\ GenericTransfer(j2))
            => target[j1] # target[j2]

\* Job j is writing target[j] into a shared directory.
Writing(j) == pc[j] \in {"c_write", "f_save"}

\* C7: two jobs writing side by side, conversions of different source files
\* or two file intakes, never write the same path.
C7_DistinctWritePaths ==
    \A j1, j2 \in Jobs :
        ( /\ j1 # j2 /\ Writing(j1) /\ Writing(j2)
          /\ stage[j1] = stage[j2]
          /\ stage[j1] = "convert" => video_path[j1] # video_path[j2] )
            => target[j1] # target[j2]

\* C8: a download_video call that fails has emitted exactly one 0/error
\* event, as its last event, and returned None.
C8_FailureReported ==
    \A j \in Jobs :
        (stage[j] = "download" /\ pc[j] = "done" /\ ret[j] = "None" /\ cb[j])
            => /\ Last(events[j]) = <<0, "error">>
               /\ Cardinality({k \in 1..Len(events[j]) : events[j][k][2] = "error"}) = 1

\* Python's round(n / d): to the nearest integer, a half to the even one.
RoundHalfEven(n, d) ==
    LET q == n \div d
        r == n % d
    IN  IF 2 * r > d \/ (2 * r = d /\ q % 2 = 1) THEN q + 1 ELSE q

\* C9: the crop of a too-wide source is round(height * 9/16) wide, of full
\* height and centred; a 1920x1080 source of 90 seconds comes out 60 seconds
\* long, 608 wide and 1080 high.
C9_WideCropRounded ==
    \A j \in Jobs :
        (clip[j].crop # <<>> /\ TooWide(clip[j].w, clip[j].h))
            => LET r == clip[j].crop
               IN  /\ r[3] - r[1] = 2 * RoundHalfEven(9 * clip[j].h, 16)
                   /\ r[2] = 0 /\ r[4] = 2 * clip[j].h
                   /\ r[1] + r[3] = 2 * clip[j].w
                   /\ (source[j] = [w |-> 1920, h |-> 1080, dur |-> 90])
                         => (clip[j].dur = 60 /\ r[3] - r[1] = 2 * 608)

\* C10: every rectangle given to clip.crop lies in the source:
\* 0 <= x1 <= x2 <= width and 0 <= y1 <= y2 <= height.
C10_ValidCropRect ==
    \A j \in Jobs :
        clip[j].crop # <<>>
            => LET r == clip[j].crop
               IN  /\ 0 <= r[1] /\ r[1] <= r[3] /\ r[3] <= 2 * source[j].w
                   /\ 0 <= r[2] /\ r[2] <= r[4] /\ r[4] <= 2 * source[j].h

\* C10's case: a too-tall source has been cropped to a proper part of it.
C10_Witness ==
    \E j \in Jobs :
        /\ pc[j] = "c_write" /\ clip[j].crop # <<>>
        /\ ~TooWide(source[j].w, source[j].h)
        /\ clip[j].crop[2] > 0

\* The size of the clip that is written, doubled: the crop rectangle if the
\* clip was cropped, else the source's size.
OutWidth2(c) == IF c.crop = <<>> THEN 2 * c.w ELSE c.crop[3] - c.crop[1]
OutHeight2(c) == IF c.crop = <<>> THEN 2 * c.h ELSE c.crop[4] - c.crop[2]

\* The job is a conversion whose clip is ready to be written or was written.
Converted(j) ==
    /\ stage[j] = "convert"
    /\ pc[j] = "c_write" \/ (pc[j] = "done" /\ ret[j] = "ok")

\* C11: the output of a 16:9 source has a width/height ratio within 0.1 of
\* 9/16 and lasts no longer than min(source duration, 60).
C11_WideSourceOutput ==
    \A j \in Jobs :
        (Converted(j) /\ 9 * source[j].w = 16 * source[j].h)
            => /\ 10 * Abs(16 * OutWidth2(clip[j]) - 9 * OutHeight2(clip[j]))
                      <= 16 * OutHeight2(clip[j])
               /\ clip[j].dur <= source[j].dur
               /\ clip[j].dur <= 60

\* C11's case: a 1920x1080 source of 90 seconds was cropped, trimmed and
\* written.
C11_Witness ==
    \E j \in Jobs :
        /\ Converted(j) /\ pc[j] = "done"
        /\ source[j] = [w |-> 1920, h |-> 1080, dur |-> 90]
        /\ clip[j].crop # <<>> /\ clip[j].dur = 60

\* The job is an authenticate_youtube call that found a valid session in
\* token.pickle.
FoundValid(j) == stage[j] = "authenticate" /\ auth[j].found = "valid"

\* C12: a call that finds a valid session in token.pickle runs neither the
\* interactive flow nor a refresh, does not write token.pickle, builds the
\* service from the session it found, and returns success unless build or
\* os.remove raised.
C12_ValidSessionReused ==
    \A j \in Jobs :
        FoundValid(j)
            => /\ auth[j].did \cap {"flow", "refresh", "wrote_token"} = {}
               /\ auth[j].built \in {NoSid, auth[j].foundSid}
               /\ pc[j] = "done"
                     => \/ ret[j] = "ok" /\ auth[j].built = auth[j].foundSid
                        \/ ret[j] = "False" /\ auth[j].raised \in {"build", "remove"}

\* C12's case: two calls found the stored session valid and both succeeded;
\* token.pickle still holds that session and the service is built from it.
C12_Witness ==
    /\ \A j \in Jobs : FoundValid(j) /\ pc[j] = "done" /\ ret[j] = "ok"
    /\ token = "valid" /\ tokenSid = StoredSid
    /\ youtube_service = "service" /\ serviceSid = StoredSid

\* C13: token.pickle is replaced atomically: it is never a truncated file,
\* and no authenticate_youtube call fails to load it.
C13_AtomicPersist ==
    /\ token # "partial"
    /\ \A j \in Jobs : auth[j].raised # "load"

\* The required fields of a trigger request are present and valid: the url
\* of a download, the path of an existing file of a process or an upload,
\* and the title of an upload.
RequiredFieldsOk(rt, req) ==
    /\ req.body
    /\ req.arg # ""
    /\ rt \in {"process", "upload"} => req.exists
    /\ rt = "upload" => req.title # ""

\* The jobs a step starts a thread for.
Started == {j \in Jobs : dispatch'[j] # dispatch[j]}

\* C14: a trigger route answers a request whose required fields are missing
\* or invalid with an error response and starts no thread; it answers any
\* other request with 200 after starting exactly one thread, whose stage has
\* not begun when the route returns. No trigger runs or ends a stage itself.
C14_ValidateThenDispatch ==
    [][(reply' # reply \/ dispatch' # dispatch)
          => /\ UNCHANGED <<pc, ret>>
             /\ IF RequiredFieldsOk(reply'.route, reply'.req)
                THEN /\ reply'.status = 200 /\ ~reply'.error
                     /\ Cardinality(Started) = 1
                     /\ \A j \in Started :
                            /\ dispatch[j] = NoThread
                            /\ dispatch'[j].route = reply'.route
                            /\ pc'[j] = "idle"
                ELSE /\ reply'.status \in {400, 500} /\ reply'.error
                     /\ Started = {}]_vars

\* C14's case: a download was dispatched to job 1 and has not begun, and an
\* upload request with an empty title was then refused with no job started.
C14_Witness ==
    /\ dispatch[1].route = "download" /\ pc[1] = "idle"
    /\ dispatch[2] = NoThread
    /\ reply.route = "upload" /\ reply.status = 400 /\ reply.error
    /\ reply.req = Req(TRUE, "a.mp4", TRUE, "")

\* The job is a dispatched stage that ended in failure.
DispatchedFailure(j) ==
    /\ dispatch[j] # NoThread
    /\ pc[j] = "done"
    /\ ret[j] \in {"None", "False"}

\* C15: when a dispatched stage has ended in failure, its error is recorded
\* on the job, where the caller can observe it.
C15_FailureRecorded ==
    \A j \in Jobs : DispatchedFailure(j) => JobRecord(j) = "error"

\* C16: the chunk loop of upload_video ends only on a terminal response
\* (success) or on a next_chunk that raises (failure), no next_chunk follows
\* a terminal response, and an invocation that has started returns.
C16_UploadTerminates ==
    /\ [][/\ (pc[1] = "u_loop" /\ pc'[1] = "done")
               => \/ response[1] /\ ret'[1] = "ok" /\ chunks'[1] = chunks[1]
                  \/ ~response[1] /\ ret'[1] = "False" /\ chunks'[1] = chunks[1] + 1
          /\ (pc[1] = "u_loop" /\ response[1])
               => (chunks'[1] = chunks[1] /\ (pc'[1] # pc[1] => pc'[1] = "done"))]_vars
    /\ (pc[1] = "u_begin") ~> (pc[1] = "done")

\* C16's case: the loop ran more than one next_chunk and the invocation
\* returned the terminal response.
C16_Witness ==
    /\ stage[1] = "upload" /\ pc[1] = "done" /\ ret[1] = "ok"
    /\ chunks[1] > 1 /\ response[1]

\* The job is an authenticate_youtube call that has returned.
AuthReturned(j) == stage[j] = "authenticate" /\ pc[j] = "done"

\* C17: an authenticate_youtube call that returned failure has not assigned
\* youtube_service.
C17_FailureKeepsService ==
    \A j \in Jobs :
        (AuthReturned(j) /\ ret[j] = "False") => "set_service" \notin auth[j].did

\* C18: once an authenticate_youtube call has returned,
\* temp_client_secret.json does not hold the credentials the call wrote.
C18_TempFileRemoved ==
    \A j \in Jobs : AuthReturned(j) => temp_cred # j

\* The 10, 20 and 0/error events of an upload_video that reached the insert
\* request, and the 10 and 0/error events of one whose media file did not
\* open.
NoServiceEvents == <<<<100, "info">>, <<200, "info">>, <<0, "error">>>>
NoMediaEvents == <<<<100, "info">>, <<0, "error">>>>

\* Job 1 runs lines 217-248 of upload_video while youtube_service is None.
BeginsWithoutService ==
    /\ pc[1] = "u_begin" /\ pc'[1] # "u_begin"
    /\ youtube_service = "None"

\* C19 as stated: an upload_video that runs with youtube_service None returns
\* failure, creates no request, asks for no chunk, and its events are
\* exactly 10, 20, 0/error.
C19_ExactEvents ==
    [][BeginsWithoutService
          => /\ pc'[1] = "done" /\ ret'[1] = "False"
             /\ ~request'[1] /\ chunks'[1] = 0
             /\ cb[1] => events'[1] = NoServiceEvents]_vars

\* C19: an upload_video that finds youtube_service None when it comes to
\* create the insert request returns failure, creates no request and asks
\* for no chunk; its events are 10, 20, 0/error, or 10, 0/error when the
\* media file did not open, and none without a callback.
C19_NoServiceFails ==
    [][BeginsWithoutService
          => /\ pc'[1] = "done" /\ ret'[1] = "False"
             /\ ~request'[1] /\ chunks'[1] = 0
             /\ events'[1] \in (IF cb[1] THEN {NoServiceEvents, NoMediaEvents}
                                        ELSE {<<>>})]_vars

\* C19's case: an invocation with a callback failed on the insert request,
\* youtube_service being None, after the 10 and 20 events.
C19_Witness ==
    /\ stage[1] = "upload" /\ cb[1] /\ pc[1] = "done" /\ ret[1] = "False"
    /\ youtube_service = "None"
    /\ events[1] = NoServiceEvents
    /\ ~request[1] /\ chunks[1] = 0

====
